---- MODULE Spec2Model ----
(***************************************************************************)
(* A model of pulse_animation.py: the wave-vector model k, the spectral    *)
(* summation sin_sum, the time-series driver calc_pulses and the renderer  *)
(* plot_pulses, driven by a caller who owns a spatial axis, a coefficient  *)
(* list and a file system.                                                 *)
(*                                                                         *)
(* Reals are fixed-point integers: the integer x stands for x / Scale.     *)
(* Products are rescaled after every multiplication, as floating point     *)
(* rounds after every operation.  Python objects that are passed by        *)
(* reference (the caller's array z, the caller's list k_i, the default     *)
(* argument lists created once at definition time) are state: every       *)
(* function returns, next to its value, the objects as it leaves them.     *)
(* Cosmetic arguments (dpi, figuresize, no_axes, z_arrow) change neither   *)
(* the lines drawn, the files saved nor the way a call ends, and are left  *)
(* out.                                                                    *)
(***************************************************************************)
EXTENDS Integers, Sequences, FiniteSets, TLC

\* ------------------------------------------------------------------------
\* Bounds of the exploration
\* ------------------------------------------------------------------------

\* Largest number of spectral components explored.  The default of the
\* source, N_frequencies = 4000, lies beyond it: a call that leaves
\* N_frequencies out runs with MaxN components.
MaxN == 100
\* Largest number of points of the spatial axis.
MaxM == 2
\* Largest n_steps handed to calc_pulses.
MaxSteps == 3
\* Largest number of time points handed to plot_pulses.
MaxTimes == 11

\* ------------------------------------------------------------------------
\* Numbers
\* ------------------------------------------------------------------------

Scale == 1000
Pi == 3142

\* a * b on fixed-point numbers
Mul(a, b) == (a * b) \div Scale

\* np.sin on [0, pi], Bhaskara's rational approximation
SinHalfWave(y) ==
  LET p == (y * (Pi - y)) \div Scale
  IN  (16 * p * Scale) \div (5 * ((Pi * Pi) \div Scale) - 4 * p)

\* np.sin: reduce the argument to one period, mirror the second half wave
Sin(x) ==
  LET r == x % (2 * Pi)
  IN  IF r <= Pi THEN SinHalfWave(r) ELSE -SinHalfWave(r - Pi)

\* np.exp(-x) for x >= 0: the reciprocal of the cubic Taylor polynomial of e^x
ExpNeg(x) ==
  LET x2 == (x * x) \div Scale
      x3 == (x2 * x) \div Scale
  IN  (Scale * Scale) \div (Scale + x + x2 \div 2 + x3 \div 6)

\* np.linspace(start, stop, num), endpoint included: one sample is start
\* alone, otherwise start + i*step with the last sample set to stop
linspace(start, stop, num) ==
  IF num = 1
  THEN <<start>>
  ELSE [i \in 1..num |->
          IF i = num THEN stop
          ELSE start + (i - 1) * ((stop - start) \div (num - 1))]

\* scipy.signal.gaussian(M, std): w[n] = exp(-n^2 / (2 std^2)) with
\* n = i - (M-1)/2 for i = 0..M-1; written with h = 2n to stay in integers.
\* std is a plain integer (a width in samples).
gaussian(M, std) ==
  [i \in 1..M |->
     LET h == 2 * (i - 1) - (M - 1)
     IN  ExpNeg((h * h * Scale) \div (8 * std * std))]

\* str(n) for n >= 0
Digits == <<"0", "1", "2", "3", "4", "5", "6", "7", "8", "9">>
RECURSIVE str(_)
str(n) == IF n < 10 THEN Digits[n + 1] ELSE str(n \div 10) \o Digits[(n % 10) + 1]

\* seq[lo:hi:step] of Python, as the set of 1-based indices it selects
\* (0 <= lo, hi; step >= 1)
SliceIndices(len, lo, hi, step) ==
  {i \in 1..len : i > lo /\ i <= hi /\ (i - 1 - lo) % step = 0}

\* len(seq[lo:hi])
SliceLen(len, lo, hi) ==
  LET a == IF lo < len THEN lo ELSE len
      b == IF hi < len THEN hi ELSE len
  IN  IF b > a THEN b - a ELSE 0

\* an optional argument: << >> when the caller leaves it out, <<v>> otherwise
Arg(opt, default) == IF opt = << >> THEN default ELSE opt[1]

\* ------------------------------------------------------------------------
\* Default arguments (program constants)
\* ------------------------------------------------------------------------

k_k0 == 1 * Scale
k_k1 == 0
k_k2 == 0
sin_sum_nu_center == 1 * Scale
sin_sum_nu_min == Scale \div 1000
sin_sum_N_frequencies == MaxN
sin_sum_spec_width == 200
sin_sum_k_i == <<1 * Scale, 5 * Scale, 0>>
calc_pulses_nu_center == 1 * Scale
calc_pulses_k_i == <<1 * Scale, 5 * Scale, 0>>
calc_pulses_spec_width == 100
plot_pulses_nu_center == Scale \div 2
plot_pulses_k_i == <<1 * Scale, 10 * Scale, 0>>
plot_pulses_spec_width == 400
plot_pulses_colors == [i \in 1..10 |-> "steelblue"]
N_spec_plot_tot == 20

\* ------------------------------------------------------------------------
\* The file system: the directory plots/ exists or not; files maps the
\* path of every saved figure to the lines the figure held when saved.
\* A path is a directory ("" for the working directory) and a name.
\* ------------------------------------------------------------------------

Path(dir, name) == <<dir, name>>

CanWrite(fs, path) == path[1] = "" \/ (path[1] = "plots" /\ fs.plots_dir)

\* fig.savefig(path) of a figure holding `lines`, where it succeeds
savefig(fs, path, lines) ==
  [fs EXCEPT !.files = [p \in (DOMAIN fs.files) \cup {path} |->
                          IF p = path THEN lines ELSE fs.files[p]]]

\* ------------------------------------------------------------------------
\* k
\* ------------------------------------------------------------------------

\* k with the offset from the center frequency taken with the wrong sign
k_sum(nu, nu_center, k0, k1, k2) ==
  LET omega == Mul(2 * Pi, nu)
      omega_0 == Mul(2 * Pi, nu_center)
  IN  k0 + Mul(k1, omega + omega_0)
         + Mul(k2, Mul(omega + omega_0, omega + omega_0))

k(nu, nu_center, k0, k1, k2) ==
  LET omega == Mul(2 * Pi, nu)
      omega_0 == Mul(2 * Pi, nu_center)
  IN  k0 + Mul(k1, omega - omega_0)
         + Mul(k2, Mul(omega - omega_0, omega - omega_0))

\* k(nu, nu_center, *k_i): the list is unpacked into k0, k1, k2; entries it
\* does not hold stay at k's defaults
k_unpacked(nu, nu_center, k_i) ==
  k(nu, nu_center,
    IF Len(k_i) >= 1 THEN k_i[1] ELSE k_k0,
    IF Len(k_i) >= 2 THEN k_i[2] ELSE k_k1,
    IF Len(k_i) >= 3 THEN k_i[3] ELSE k_k2)

\* ------------------------------------------------------------------------
\* sin_sum
\* ------------------------------------------------------------------------

\* How a call ends: what it returns or raises, the objects it was handed as
\* it leaves them, the file system, the lines on its last figure and the
\* paths it saved, in order.
Outcome(status, value, z, k_i, fs, lines, saved) ==
  [status |-> status, value |-> value, z |-> z, k_i |-> k_i, fs |-> fs,
   lines |-> lines, saved |-> saved]

\* phi_nu that first shifts the caller's axis in place to start at zero
\* (if z[0] != 0: z -= z[0])
phi_nu_inplace(nu, nu_center, k_i, z) ==
  LET shifted == IF Len(z) = 0 \/ z[1] = 0 THEN z
                 ELSE [j \in 1..Len(z) |-> z[j] - z[1]]
  IN  IF Len(k_i) > 3
      THEN [status |-> "TypeError", value |-> << >>, z |-> z, k_i |-> k_i]
      ELSE [status |-> "ok",
            value |-> [j \in 1..Len(z) |->
                         Mul(k_unpacked(nu, nu_center, k_i), shifted[j])],
            z |-> shifted, k_i |-> k_i]

\* phi_nu = k(frequencies[i], nu_center, *k_i) * z: a new array; z and k_i
\* are read, not written.  k takes k0, k1, k2: a longer list is a TypeError.
phi_nu(nu, nu_center, k_i, z) ==
  IF Len(k_i) > 3
  THEN [status |-> "TypeError", value |-> << >>, z |-> z, k_i |-> k_i]
  ELSE [status |-> "ok",
        value |-> [j \in 1..Len(z) |-> Mul(k_unpacked(nu, nu_center, k_i), z[j])],
        z |-> z, k_i |-> k_i]

\* component with the weight added to the sine instead of scaling it
component_added(weight, nu, t, phi) ==
  [j \in 1..Len(phi) |-> weight + Sin(Mul(Mul(2 * Pi, nu), t) - phi[j])]

\* spectrum[i] * np.sin(2 * np.pi * frequencies[i] * t - phi_nu)
component(weight, nu, t, phi) ==
  [j \in 1..Len(phi) |-> Mul(weight, Sin(Mul(Mul(2 * Pi, nu), t) - phi[j]))]

\* One pass of the loop body for index i (1-based) on the loop's state
sin_sum_body(i, s, frequencies, spectrum, plotting_frequencies, t, nu_center, plotting) ==
  LET p == phi_nu(frequencies[i], nu_center, s.k_i, s.z)
      row == component(spectrum[i], frequencies[i], t, p.value)
      plot == plotting /\ frequencies[i] \in plotting_frequencies
  IN  IF p.status # "ok"
      THEN [s EXCEPT !.status = p.status]
      ELSE [status |-> "ok",
            E_nu |-> [s.E_nu EXCEPT ![i] = row],
            z |-> p.z, k_i |-> p.k_i,
            lines |-> IF plot THEN Append(s.lines, row) ELSE s.lines,
            n_plotted |-> IF plot THEN s.n_plotted + 1 ELSE s.n_plotted]

\* for i in range(len(frequencies)): the passes lo..hi in order, up to the
\* first that raises
RECURSIVE sin_sum_loop(_, _, _, _, _, _, _, _, _)
sin_sum_loop(lo, hi, s, frequencies, spectrum, plotting_frequencies, t, nu_center, plotting) ==
  IF lo > hi THEN s
  ELSE IF lo = hi
  THEN sin_sum_body(lo, s, frequencies, spectrum, plotting_frequencies, t, nu_center, plotting)
  ELSE LET mid == (lo + hi) \div 2
           first == sin_sum_loop(lo, mid, s, frequencies, spectrum,
                                 plotting_frequencies, t, nu_center, plotting)
       IN  IF first.status # "ok"
           THEN first
           ELSE sin_sum_loop(mid + 1, hi, first, frequencies, spectrum,
                             plotting_frequencies, t, nu_center, plotting)

\* E_nu.sum(axis=0), column j, over the rows lo..hi
RECURSIVE sum_axis0(_, _, _, _)
sum_axis0(E_nu, lo, hi, j) ==
  IF lo > hi THEN 0
  ELSE IF lo = hi THEN E_nu[lo][j]
  ELSE LET mid == (lo + hi) \div 2
       IN  sum_axis0(E_nu, lo, mid, j) + sum_axis0(E_nu, mid + 1, hi, j)

\* The three figures of the plotting mode, saved in this order
sin_sum_paths ==
  <<Path("plots", "spectral_components.pdf"),
    Path("plots", "resulting_pulse.pdf"),
    Path("plots", "spectrum.pdf")>>

sin_sum(z, t, nu_center, nu_min, N_frequencies, spec_width, k_i, plotting, fs) ==
  LET frequencies == linspace(nu_min, nu_center * 2, N_frequencies)
      spectrum == gaussian(Len(frequencies), spec_width)
      zeros == [i \in 1..Len(frequencies) |-> [j \in 1..Len(z) |-> 0]]
      N_spec_plot_min == (2 * N_frequencies) \div 5
      N_spec_plot_max == (3 * N_frequencies) \div 5
      spacing == SliceLen(Len(frequencies), N_spec_plot_min, N_spec_plot_max)
                   \div N_spec_plot_tot
  IN  IF spacing = 0
      THEN \* frequencies[a:b:0]: slice step cannot be zero
           Outcome("ValueError", << >>, z, k_i, fs, << >>, << >>)
      ELSE IF plotting /\ Len(z) = 0
      THEN \* z.min() of an empty array
           Outcome("ValueError", << >>, z, k_i, fs, << >>, << >>)
      ELSE
        LET plotting_frequencies ==
              {frequencies[i] : i \in SliceIndices(Len(frequencies),
                                   N_spec_plot_min, N_spec_plot_max, spacing)}
            s == sin_sum_loop(1, Len(frequencies),
                   [status |-> "ok", E_nu |-> zeros, z |-> z, k_i |-> k_i,
                    lines |-> << >>, n_plotted |-> 0],
                   frequencies, spectrum, plotting_frequencies, t, nu_center,
                   plotting)
            E == [j \in 1..Len(z) |-> sum_axis0(s.E_nu, 1, Len(frequencies), j)]
        IN  IF s.status # "ok"
            THEN Outcome(s.status, << >>, s.z, s.k_i, fs, s.lines, << >>)
            ELSE IF ~plotting
            THEN Outcome("returned", E, s.z, s.k_i, fs, << >>, << >>)
            ELSE IF ~CanWrite(fs, sin_sum_paths[1])
            THEN \* fig.savefig("plots/spectral_components.pdf") fails
                 Outcome("FileNotFoundError", << >>, s.z, s.k_i, fs, s.lines, << >>)
            ELSE Outcome("returned", E, s.z, s.k_i,
                   savefig(savefig(savefig(fs, sin_sum_paths[1], s.lines),
                                   sin_sum_paths[2], <<E>>),
                           sin_sum_paths[3], <<spectrum>>),
                   <<spectrum>>, sin_sum_paths)

\* ------------------------------------------------------------------------
\* calc_pulses
\* ------------------------------------------------------------------------

RECURSIVE calc_pulses_loop(_, _, _, _, _, _)

\* calc_pulses_store filling the array from its last row upwards
calc_pulses_store_reversed(i, s, r, times, nu_center, spec_width, fs) ==
  IF r.status # "returned"
  THEN [status |-> r.status, pulses |-> s.pulses, z |-> r.z, k_i |-> r.k_i]
  ELSE calc_pulses_loop(i + 1,
         [status |-> "ok",
          pulses |-> [s.pulses EXCEPT ![Len(times) - i + 1] = r.value],
          z |-> r.z, k_i |-> r.k_i],
         times, nu_center, spec_width, fs)

\* pulses[i, :] = r, where r is how the sin_sum call of pass i ended; a call
\* that raised ends calc_pulses, otherwise the loop goes on with pass i + 1
calc_pulses_store(i, s, r, times, nu_center, spec_width, fs) ==
  IF r.status # "returned"
  THEN [status |-> r.status, pulses |-> s.pulses, z |-> r.z, k_i |-> r.k_i]
  ELSE calc_pulses_loop(i + 1,
         [status |-> "ok", pulses |-> [s.pulses EXCEPT ![i] = r.value],
          z |-> r.z, k_i |-> r.k_i],
         times, nu_center, spec_width, fs)

\* for i in range(len(times)): pulses[i, :] = sin_sum(z, times[i],
\* nu_center=nu_center, k_i=k_i, spec_width=spec_width), from pass i on
calc_pulses_loop(i, s, times, nu_center, spec_width, fs) ==
  IF i > Len(times) THEN s
  ELSE calc_pulses_store(i, s,
         sin_sum(s.z, times[i], nu_center, sin_sum_nu_min,
                 sin_sum_N_frequencies, spec_width, s.k_i, FALSE, fs),
         times, nu_center, spec_width, fs)

\* return pulses, or the exception of the pass that raised
calc_pulses_return(s, fs) ==
  IF s.status = "ok"
  THEN Outcome("returned", s.pulses, s.z, s.k_i, fs, << >>, << >>)
  ELSE Outcome(s.status, << >>, s.z, s.k_i, fs, << >>, << >>)

calc_pulses(z, t_start, t_end, n_steps, nu_center, k_i, spec_width, fs) ==
  LET times == linspace(t_start, t_end, n_steps)
      zeros == [i \in 1..n_steps |-> [j \in 1..Len(z) |-> 0]]
  IN  calc_pulses_return(
        calc_pulses_loop(1, [status |-> "ok", pulses |-> zeros, z |-> z, k_i |-> k_i],
                         times, nu_center, spec_width, fs),
        fs)

\* ------------------------------------------------------------------------
\* plot_pulses
\* ------------------------------------------------------------------------

RECURSIVE plot_pulses_pulses(_, _, _, _, _, _)

\* Entry i of the list is r, how the sin_sum call for times[i] ended
plot_pulses_append(i, s, r, times, nu_center, spec_width, fs) ==
  IF r.status # "returned"
  THEN [status |-> r.status, pulses |-> s.pulses, z |-> r.z, k_i |-> r.k_i]
  ELSE plot_pulses_pulses(i + 1,
         [status |-> "ok", pulses |-> Append(s.pulses, r.value),
          z |-> r.z, k_i |-> r.k_i],
         times, nu_center, spec_width, fs)

\* pulses = [sin_sum(z, t, nu_center=nu_center, k_i=k_i,
\*                   spec_width=spec_width) for t in times], from entry i on
plot_pulses_pulses(i, s, times, nu_center, spec_width, fs) ==
  IF i > Len(times) THEN s
  ELSE plot_pulses_append(i, s,
         sin_sum(s.z, times[i], nu_center, sin_sum_nu_min,
                 sin_sum_N_frequencies, spec_width, s.k_i, FALSE, fs),
         times, nu_center, spec_width, fs)

\* The path of the figure saved in pass i (1-based; the source's i + 1)
plot_pulses_path(plotname, i, n_pulses) ==
  IF n_pulses > 1
  THEN Path(plotname[1], plotname[2] \o "_" \o str((i - 1) + 1) \o ".pdf")
  ELSE Path(plotname[1], plotname[2] \o ".pdf")

\* ax.plot(z, pulses[i], color=colors[i]): the line it adds to the figure
plot_pulses_line(pulses, colors, i) == [y |-> pulses[i], color |-> colors[i]]

\* for i in range(len(pulses)): draw pulse i in colors[i], then save the
\* figure if a plotname is given; from pass i on, up to the first pass that
\* raises
RECURSIVE plot_pulses_loop(_, _, _, _, _)

\* plot_pulses_loop starting over with the first color when the colors run
\* out (colors[i % len(colors)])
plot_pulses_loop_cycled(i, s, pulses, plotname, colors) ==
  LET line == [y |-> pulses[i], color |-> colors[((i - 1) % Len(colors)) + 1]]
  IN  IF i > Len(pulses) THEN s
      ELSE IF plotname = Path("", "")
      THEN plot_pulses_loop(i + 1, [s EXCEPT !.lines = Append(s.lines, line)],
                            pulses, plotname, colors)
      ELSE IF ~CanWrite(s.fs, plot_pulses_path(plotname, i, Len(pulses)))
      THEN [s EXCEPT !.lines = Append(s.lines, line),
                     !.status = "FileNotFoundError"]
      ELSE plot_pulses_loop(i + 1,
             [status |-> "ok",
              lines |-> Append(s.lines, line),
              fs |-> savefig(s.fs, plot_pulses_path(plotname, i, Len(pulses)),
                             Append(s.lines, line)),
              saved |-> Append(s.saved, plot_pulses_path(plotname, i, Len(pulses)))],
             pulses, plotname, colors)

plot_pulses_loop(i, s, pulses, plotname, colors) ==
  IF i > Len(pulses) THEN s
  ELSE IF i > Len(colors)
  THEN \* colors[i]: list index out of range
       [s EXCEPT !.status = "IndexError"]
  ELSE IF plotname = Path("", "")
  THEN plot_pulses_loop(i + 1, [s EXCEPT !.lines = Append(s.lines, plot_pulses_line(pulses, colors, i))],
                        pulses, plotname, colors)
  ELSE IF ~CanWrite(s.fs, plot_pulses_path(plotname, i, Len(pulses)))
  THEN \* fig.savefig(path) fails
       [s EXCEPT !.lines = Append(s.lines, plot_pulses_line(pulses, colors, i)),
                 !.status = "FileNotFoundError"]
  ELSE plot_pulses_loop(i + 1,
         [status |-> "ok",
          lines |-> Append(s.lines, plot_pulses_line(pulses, colors, i)),
          fs |-> savefig(s.fs, plot_pulses_path(plotname, i, Len(pulses)),
                         Append(s.lines, plot_pulses_line(pulses, colors, i))),
          saved |-> Append(s.saved, plot_pulses_path(plotname, i, Len(pulses)))],
         pulses, plotname, colors)

\* plt.show() after the loop, or the exception of the pass that raised
plot_pulses_show(p, s) ==
  Outcome(IF s.status = "ok" THEN "returned" ELSE s.status,
          << >>, p.z, p.k_i, s.fs, s.lines, s.saved)

\* The figure, given the pulses p computed for it
plot_pulses_draw(p, plotname, colors, fs) ==
  IF p.status # "ok"
  THEN Outcome(p.status, << >>, p.z, p.k_i, fs, << >>, << >>)
  ELSE IF Len(p.z) = 0
  THEN \* z.min() of an empty array
       Outcome("ValueError", << >>, p.z, p.k_i, fs, << >>, << >>)
  ELSE IF Len(p.pulses) = 0
  THEN \* pulses[0]: list index out of range
       Outcome("IndexError", << >>, p.z, p.k_i, fs, << >>, << >>)
  ELSE plot_pulses_show(p,
         plot_pulses_loop(1, [status |-> "ok", lines |-> << >>, fs |-> fs,
                              saved |-> << >>],
                          p.pulses, plotname, colors))

plot_pulses(z, times, nu_center, k_i, spec_width, plotname, colors, fs) ==
  plot_pulses_draw(
    plot_pulses_pulses(1, [status |-> "ok", pulses |-> << >>, z |-> z, k_i |-> k_i],
                       times, nu_center, spec_width, fs),
    plotname, colors, fs)

\* ------------------------------------------------------------------------
\* State
\* ------------------------------------------------------------------------

VARIABLES
  caller_z,     \* the caller's spatial axis (a numpy array)
  caller_k_i,   \* the caller's coefficient list: <<list>>, or << >> if the
                \* caller hands none and the default list is used
  defaults,     \* the default-argument lists, created once per function
  fs,           \* the file system
  args,         \* the scalar arguments the caller uses
  call,         \* the last call: function, arguments, outcome
  memo          \* an earlier call the caller kept for comparison

vars == <<caller_z, caller_k_i, defaults, fs, args, call, memo>>

NoCall == [fn |-> "none"]

InitDefaults ==
  [sin_sum_k_i |-> sin_sum_k_i, calc_pulses_k_i |-> calc_pulses_k_i,
   plot_pulses_k_i |-> plot_pulses_k_i, colors |-> plot_pulses_colors]

\* The spatial axes: np.linspace(lo, hi, M) for M up to MaxM
Axes == {linspace(-2 * Scale, 2 * Scale, M) : M \in 0..MaxM}

\* ------------------------------------------------------------------------
\* Actions
\* ------------------------------------------------------------------------

\* The environment removes the directory plots/ with all it holds
RemovePlotsDir ==
  /\ fs.plots_dir
  /\ fs' = [plots_dir |-> FALSE,
            files |-> [p \in {q \in DOMAIN fs.files : q[1] # "plots"} |-> fs.files[p]]]
  /\ UNCHANGED <<caller_z, caller_k_i, defaults, args, call, memo>>

\* The environment creates the directory plots/
MakePlotsDir ==
  /\ ~fs.plots_dir
  /\ fs' = [fs EXCEPT !.plots_dir = TRUE]
  /\ UNCHANGED <<caller_z, caller_k_i, defaults, args, call, memo>>

\* The caller keeps the last call for a later comparison
Remember ==
  /\ call.fn # "none"
  /\ memo # call
  /\ memo' = call
  /\ UNCHANGED <<caller_z, caller_k_i, defaults, fs, args, call>>

\* k(nu, nu_center, *k_i)
K ==
  /\ caller_k_i # << >>
  /\ call' = [fn |-> "k", nu |-> args.nu, nu_center |-> args.nu_center[1],
              k_i |-> caller_k_i[1], status |-> "returned",
              value |-> <<k_unpacked(args.nu, args.nu_center[1], caller_k_i[1])>>]
  /\ UNCHANGED <<caller_z, caller_k_i, defaults, fs, args, memo>>

\* sin_sum(z, t, nu_center=.., nu_min=.., N_frequencies=.., spec_width=..,
\*         k_i=.., plotting=..), every optional argument given or left out
SinSum(plotting) ==
  \E k_i \in {Arg(caller_k_i, defaults.sin_sum_k_i)} :
  \E r \in {sin_sum(caller_z, args.t,
                    Arg(args.nu_center, sin_sum_nu_center),
                    Arg(args.nu_min, sin_sum_nu_min),
                    Arg(args.N_frequencies, sin_sum_N_frequencies),
                    Arg(args.spec_width, sin_sum_spec_width),
                    k_i, plotting, fs)} :
      /\ call' = [fn |-> "sin_sum", z |-> caller_z, t |-> args.t,
                  nu_center |-> args.nu_center, nu_min |-> args.nu_min,
                  N_frequencies |-> args.N_frequencies,
                  spec_width |-> args.spec_width, k_i |-> caller_k_i,
                  plotting |-> plotting, plots_dir |-> fs.plots_dir,
                  status |-> r.status,
                  value |-> r.value, lines |-> r.lines, saved |-> r.saved]
      /\ caller_z' = r.z
      /\ caller_k_i' = IF caller_k_i = << >> THEN << >> ELSE <<r.k_i>>
      /\ defaults' = IF caller_k_i = << >>
                     THEN [defaults EXCEPT !.sin_sum_k_i = r.k_i]
                     ELSE defaults
      /\ fs' = r.fs
      /\ UNCHANGED <<args, memo>>

\* calc_pulses(z, t_start, t_end, n_steps, nu_center=.., k_i=..,
\*             spec_width=..), every optional argument given or left out
CalcPulses ==
  \E r \in {calc_pulses(caller_z, args.t, args.t_end, args.n_steps,
                        Arg(args.nu_center, calc_pulses_nu_center),
                        Arg(caller_k_i, defaults.calc_pulses_k_i),
                        Arg(args.spec_width, calc_pulses_spec_width), fs)} :
      /\ args.nu_min = << >>
      /\ args.N_frequencies = << >>
      /\ call' = [fn |-> "calc_pulses", z |-> caller_z, t |-> args.t,
                  t_end |-> args.t_end, n_steps |-> args.n_steps,
                  nu_center |-> args.nu_center,
                  spec_width |-> args.spec_width, k_i |-> caller_k_i,
                  status |-> r.status, value |-> r.value]
      /\ caller_z' = r.z
      /\ caller_k_i' = IF caller_k_i = << >> THEN << >> ELSE <<r.k_i>>
      /\ defaults' = IF caller_k_i = << >>
                     THEN [defaults EXCEPT !.calc_pulses_k_i = r.k_i]
                     ELSE defaults
      /\ fs' = r.fs
      /\ UNCHANGED <<args, memo>>

\* plot_pulses(z, times, nu_center=.., k_i=.., spec_width=.., plotname=..,
\*             colors=..), every optional argument given or left out
PlotPulses ==
  \E r \in {plot_pulses(caller_z, args.times,
                        Arg(args.nu_center, plot_pulses_nu_center),
                        Arg(caller_k_i, defaults.plot_pulses_k_i),
                        Arg(args.spec_width, plot_pulses_spec_width),
                        args.plotname,
                        Arg(args.colors, defaults.colors), fs)} :
      /\ args.nu_min = << >>
      /\ args.N_frequencies = << >>
      /\ call' = [fn |-> "plot_pulses", z |-> caller_z, times |-> args.times,
                  nu_center |-> args.nu_center,
                  spec_width |-> args.spec_width, k_i |-> caller_k_i,
                  plotname |-> args.plotname, colors |-> args.colors,
                  plots_dir |-> fs.plots_dir,
                  status |-> r.status, value |-> r.value,
                  lines |-> r.lines, saved |-> r.saved]
      /\ caller_z' = r.z
      /\ caller_k_i' = IF caller_k_i = << >> THEN << >> ELSE <<r.k_i>>
      /\ defaults' = IF caller_k_i = << >>
                     THEN [defaults EXCEPT !.plot_pulses_k_i = r.k_i]
                     ELSE defaults
      /\ fs' = r.fs
      /\ UNCHANGED <<args, memo>>

\* ------------------------------------------------------------------------
\* Specifications
\* ------------------------------------------------------------------------

NoArgs ==
  [t |-> 0, nu_center |-> << >>, nu_min |-> << >>, N_frequencies |-> << >>,
   spec_width |-> << >>, nu |-> 0, t_end |-> 0, n_steps |-> 0,
   times |-> << >>, plotname |-> Path("", ""), colors |-> << >>]

InitHeap ==
  /\ defaults = InitDefaults
  /\ call = NoCall
  /\ memo = NoCall

\* Calls of sin_sum over a range of spectral parameters
Init ==
  /\ InitHeap
  /\ caller_z \in Axes
  /\ caller_k_i \in {<< >>, <<<<1 * Scale, 2 * Scale, Scale \div 10>>>>}
  /\ fs = [plots_dir |-> FALSE, files |-> << >>]
  /\ \E t \in {0, (7 * Scale) \div 10},
        nu_center \in {<< >>, <<Scale \div 2>>},
        spec_width \in {<< >>, <<100>>},
        N_frequencies \in {<< >>} \cup {<<n>> : n \in {0, 1, 2, 50} \cup (MaxN - 4)..(MaxN - 1)} :
       args = [NoArgs EXCEPT !.t = t, !.nu_center = nu_center,
                             !.spec_width = spec_width,
                             !.N_frequencies = N_frequencies]

Next ==
  \/ \E plotting \in BOOLEAN : SinSum(plotting)
  \/ RemovePlotsDir
  \/ MakePlotsDir

Spec == Init /\ [][Next]_vars

\* Calls of k over a range of frequencies and coefficients
InitK ==
  /\ InitHeap
  /\ caller_z = << >>
  /\ fs = [plots_dir |-> FALSE, files |-> << >>]
  /\ caller_k_i \in {<<<<k0, k1, k2>>>> :
                       k0 \in {0, Scale, -(Scale \div 2)},
                       k1 \in {0, 5 * Scale, -2 * Scale},
                       k2 \in {0, Scale \div 10}}
  /\ \E nu \in {0, Scale \div 1000, Scale \div 2, Scale, 2 * Scale},
        nu_center \in {Scale \div 2, Scale} :
       args = [NoArgs EXCEPT !.nu = nu, !.nu_center = <<nu_center>>]

NextK == K

SpecK == InitK /\ [][NextK]_vars

\* Calls of calc_pulses and of sin_sum with the same arguments
Times(n) == [i \in 1..n |-> (i - 1) * ((3 * Scale) \div 10)]

InitCalc ==
  /\ InitHeap
  /\ caller_z \in {linspace(-2 * Scale, 2 * Scale, M) : M \in 0..MaxM}
  /\ caller_k_i \in {<< >>, <<<<1 * Scale, 2 * Scale, Scale \div 10>>>>}
  /\ fs = [plots_dir |-> FALSE, files |-> << >>]
  /\ \E n_steps \in 0..MaxSteps,
        nu_center \in {<< >>, <<Scale \div 2>>},
        spec_width \in {<< >>, <<150>>} :
       args = [NoArgs EXCEPT !.t = (7 * Scale) \div 10, !.t_end = 2 * Scale,
                             !.n_steps = n_steps, !.nu_center = nu_center,
                             !.spec_width = spec_width]

NextCalc ==
  \/ CalcPulses
  \/ SinSum(FALSE)
  \/ Remember

SpecCalc == InitCalc /\ [][NextCalc]_vars

\* Calls of plot_pulses
InitPlot ==
  /\ InitHeap
  /\ caller_z \in {<< >>, linspace(-2 * Scale, 2 * Scale, MaxM)}
  /\ caller_k_i = << >>
  /\ fs = [plots_dir |-> FALSE, files |-> << >>]
  /\ \E n \in 0..3 \cup (MaxTimes - 1)..MaxTimes,
        plotname \in {Path("", ""), Path("", "pulse"), Path("plots", "pulse")},
        colors \in {<< >>, <<<<"red", "green">>>>,
                    <<[i \in 1..(MaxTimes + 1) |-> "black"]>>} :
       args = [NoArgs EXCEPT !.times = Times(n), !.plotname = plotname,
                             !.colors = colors]

NextPlot ==
  \/ PlotPulses
  \/ RemovePlotsDir
  \/ MakePlotsDir

SpecPlot == InitPlot /\ [][NextPlot]_vars

\* Repeated calls of sin_sum with calls of calc_pulses in between
InitDet ==
  /\ InitHeap
  /\ caller_z = linspace(-2 * Scale, 2 * Scale, MaxM)
  /\ caller_k_i \in {<< >>, <<<<1 * Scale, 2 * Scale, Scale \div 10>>>>}
  /\ fs = [plots_dir |-> FALSE, files |-> << >>]
  /\ \E N_frequencies \in {<< >>, <<1>>, <<MaxN - 1>>} :
       args = [NoArgs EXCEPT !.t = (7 * Scale) \div 10, !.t_end = 2 * Scale,
                             !.n_steps = 2, !.N_frequencies = N_frequencies]

NextDet ==
  \/ \E plotting \in BOOLEAN : SinSum(plotting)
  \/ CalcPulses
  \/ Remember
  \/ RemovePlotsDir
  \/ MakePlotsDir

SpecDet == InitDet /\ [][NextDet]_vars

\* ------------------------------------------------------------------------
\* Properties
\* ------------------------------------------------------------------------

Abs(x) == IF x < 0 THEN -x ELSE x

\* f[lo] + ... + f[hi]
RECURSIVE SumOver(_, _, _)
SumOver(f, lo, hi) ==
  IF lo > hi THEN 0
  ELSE IF lo = hi THEN f[lo]
  ELSE LET mid == (lo + hi) \div 2
       IN  SumOver(f, lo, mid) + SumOver(f, mid + 1, hi)

\* The arguments a recorded sin_sum call ran with, defaults filled in
UsedNuCenter(c) == Arg(c.nu_center, sin_sum_nu_center)
UsedNuMin(c) == Arg(c.nu_min, sin_sum_nu_min)
UsedN(c) == Arg(c.N_frequencies, sin_sum_N_frequencies)
UsedSpecWidth(c) == Arg(c.spec_width, sin_sum_spec_width)
UsedKi(c) == Arg(c.k_i, sin_sum_k_i)

\* The field at position z_j: the sum over the N spectral indices i of
\* spectrum[i] * sin(2 pi frequencies[i] t - k(frequencies[i]) z_j)
FieldAt(z_j, t, nu_center, nu_min, N, spec_width, k_i) ==
  LET frequencies == linspace(nu_min, 2 * nu_center, N)
      spectrum == gaussian(N, spec_width)
      terms == [i \in 1..N |->
                  Mul(spectrum[i],
                      Sin(Mul(Mul(2 * Pi, frequencies[i]), t)
                          - Mul(k_unpacked(frequencies[i], nu_center, k_i), z_j)))]
  IN  SumOver(terms, 1, N)

\* C1: for every non-empty z and every t, nu_center, nu_min,
\* N_frequencies >= 1, spec_width and k_i, sin_sum returns an array as long as z whose entry j is the sum over all
\* spectral indices i of spectrum[i] * sin(2 pi frequencies[i] t
\* - k(frequencies[i], nu_center, k_i) z[j]).
C1_FieldIsSumOfComponents ==
  (call.fn = "sin_sum" /\ ~call.plotting /\ UsedN(call) >= 1
     /\ Len(call.z) >= 1) =>
    /\ call.status = "returned"
    /\ Len(call.value) = Len(call.z)
    /\ \A j \in 1..Len(call.z) :
         call.value[j] = FieldAt(call.z[j], call.t, UsedNuCenter(call),
                                 UsedNuMin(call), UsedN(call),
                                 UsedSpecWidth(call), UsedKi(call))

\* C2: k(nu, nu_center, k0, k1, k2) returns
\* k0 + k1 (omega - omega0) + k2 (omega - omega0)^2 with omega = 2 pi nu and
\* omega0 = 2 pi nu_center; with k1 = k2 = 0 the result is k0 whatever nu is;
\* every call returns and leaves the caller's list, the default lists, the
\* axis and the file system as they were.
C2_WaveVector ==
  call.fn = "k" =>
    LET k0 == call.k_i[1]
        k1 == call.k_i[2]
        k2 == call.k_i[3]
        d == Mul(2 * Pi, call.nu) - Mul(2 * Pi, call.nu_center)
    IN  /\ call.status = "returned"
        /\ call.value = <<k0 + Mul(k1, d) + Mul(k2, Mul(d, d))>>
        /\ (k1 = 0 /\ k2 = 0) => call.value = <<k0>>
        /\ caller_k_i = <<call.k_i>>
        /\ defaults = InitDefaults
        /\ caller_z = << >>
        /\ fs = [plots_dir |-> FALSE, files |-> << >>]

\* A call of k with k1 = k2 = 0 away from the center frequency returned k0
C2_Witness ==
  /\ call.fn = "k"
  /\ call.k_i[2] = 0 /\ call.k_i[3] = 0 /\ call.k_i[1] # 0
  /\ call.nu # call.nu_center
  /\ call.value = <<call.k_i[1]>>

\* C3: with N_frequencies = 1, a non-empty z and plotting off, sin_sum returns, without
\* raising, a field as long as z that is the single spectral component.
C3_SingleFrequencyReturns ==
  (call.fn = "sin_sum" /\ call.N_frequencies = <<1>> /\ ~call.plotting
     /\ Len(call.z) >= 1) =>
    /\ call.status = "returned"
    /\ Len(call.value) = Len(call.z)
    /\ \A j \in 1..Len(call.z) :
         call.value[j] =
           Mul(gaussian(1, UsedSpecWidth(call))[1],
               Sin(Mul(Mul(2 * Pi, UsedNuMin(call)), call.t)
                   - Mul(k_unpacked(UsedNuMin(call), UsedNuCenter(call),
                                    UsedKi(call)),
                         call.z[j])))

\* C7: every entry of a field sin_sum returns is, in absolute value, at most
\* the sum of the spectral weights of the call, the weights being
\* non-negative.
C7_BoundedBySpectrum ==
  (call.fn = "sin_sum" /\ call.status = "returned") =>
    LET spectrum == gaussian(UsedN(call), UsedSpecWidth(call))
    IN  /\ \A i \in 1..UsedN(call) : spectrum[i] >= 0
        /\ \A j \in 1..Len(call.value) :
             Abs(call.value[j]) <= SumOver(spectrum, 1, UsedN(call))

\* sin_sum returned a field with a non-zero entry
C7_Witness ==
  /\ call.fn = "sin_sum"
  /\ call.status = "returned"
  /\ \E j \in 1..Len(call.value) : call.value[j] # 0

\* C4: for n_steps = 1 the single row of calc_pulses(z, t_start, t_end, 1, ...)
\* equals sin_sum(z, t_start, ...), the optional spectral arguments given
\* identically to both calls and those not given left at each function's own
\* default.
C4_SingleStepIsSinSum ==
  (/\ memo.fn = "calc_pulses" /\ memo.n_steps = 1
   /\ call.fn = "sin_sum" /\ ~call.plotting
   /\ call.z = memo.z /\ Len(call.z) >= 1 /\ call.t = memo.t
   /\ call.nu_center = memo.nu_center
   /\ call.spec_width = memo.spec_width
   /\ call.k_i = memo.k_i
   /\ call.nu_min = << >> /\ call.N_frequencies = << >>) =>
    /\ memo.status = "returned"
    /\ call.status = "returned"
    /\ memo.value = <<call.value>>

\* The time points of a recorded calc_pulses call
TimesOf(c) == linspace(c.t, c.t_end, c.n_steps)

\* What sin_sum gives for the arguments of a recorded calc_pulses call at
\* time t, run on its own
RowAt(c, t) ==
  sin_sum(c.z, t, Arg(c.nu_center, calc_pulses_nu_center), sin_sum_nu_min,
          sin_sum_N_frequencies, Arg(c.spec_width, calc_pulses_spec_width),
          Arg(c.k_i, calc_pulses_k_i), FALSE,
          [plots_dir |-> FALSE, files |-> << >>])

\* C5: calc_pulses returns exactly n_steps rows of length len(z); row i is
\* the field sin_sum produces for times[i], times being the n_steps points
\* linearly spaced from t_start to t_end; the rows are in the order of the
\* times and each is what a call of sin_sum on its own gives.
C5_RowsFollowTimes ==
  call.fn = "calc_pulses" =>
    /\ call.status = "returned"
    /\ Len(call.value) = call.n_steps
    /\ \A i \in 1..call.n_steps :
         /\ Len(call.value[i]) = Len(call.z)
         /\ RowAt(call, TimesOf(call)[i]).status = "returned"
         /\ call.value[i] = RowAt(call, TimesOf(call)[i]).value

\* calc_pulses returned several rows over a non-empty axis, not all equal
C5_Witness ==
  /\ call.fn = "calc_pulses"
  /\ call.status = "returned"
  /\ call.n_steps >= 2
  /\ Len(call.z) >= 1
  /\ call.value[1] # call.value[2]

\* Two recorded sin_sum calls with the same numeric inputs
SameNumericInputs(c, d) ==
  /\ c.fn = "sin_sum" /\ d.fn = "sin_sum"
  /\ c.z = d.z /\ c.t = d.t /\ c.nu_center = d.nu_center
  /\ c.nu_min = d.nu_min /\ c.N_frequencies = d.N_frequencies
  /\ c.spec_width = d.spec_width /\ c.k_i = d.k_i

\* C6: for identical numeric inputs, whether sin_sum returns and the field
\* it returns are the same with plotting on or off, and whether the
\* rendering steps succeed or fail.
C6_RenderingIndependence ==
  (SameNumericInputs(memo, call) /\ Len(call.z) >= 1) =>
    /\ (memo.status = "returned") <=> (call.status = "returned")
    /\ memo.value = call.value

\* C8: two calls of sin_sum with identical arguments, with any calls of
\* sin_sum or calc_pulses in between, return identical output: if both
\* return, they return the same field, and with plotting off they end the
\* same way; no call of sin_sum or calc_pulses modifies the caller's z or
\* k_i, nor a default list.
C8_Deterministic ==
  /\ (SameNumericInputs(memo, call) /\ memo.plotting = call.plotting) =>
       /\ (memo.status = "returned" /\ call.status = "returned")
            => memo.value = call.value
       /\ ~call.plotting =>
            (memo.status = call.status /\ memo.value = call.value)
  /\ call.fn \in {"sin_sum", "calc_pulses"} =>
       (caller_z = call.z /\ caller_k_i = call.k_i)
  /\ defaults = InitDefaults

\* Two calls of sin_sum with identical arguments, the directory plots/
\* created or removed in between, both returned a non-empty field
C8_Witness ==
  /\ SameNumericInputs(memo, call)
  /\ ~memo.plotting /\ ~call.plotting
  /\ memo.plots_dir # call.plots_dir
  /\ memo.status = "returned" /\ call.status = "returned"
  /\ Len(call.value) >= 1
  /\ \E j \in 1..Len(call.value) : call.value[j] # 0

\* The colors a recorded plot_pulses call ran with
UsedColors(c) == Arg(c.colors, plot_pulses_colors)

\* The target of a recorded plot_pulses call can be written
Writable(c) == c.plotname[1] = "" \/ c.plots_dir

\* The paths plotname_1.pdf ... plotname_n.pdf, or plotname.pdf for n = 1
ExpectedPaths(plotname, n) ==
  IF n = 1
  THEN <<Path(plotname[1], plotname[2] \o ".pdf")>>
  ELSE [i \in 1..n |-> Path(plotname[1], plotname[2] \o "_" \o str(i) \o ".pdf")]

\* C9: called with a non-empty plotname and more than one time point,
\* plot_pulses saves one plot per time step, in time order, named
\* plotname_1.pdf ... plotname_n.pdf, the plot of step i holding exactly the
\* pulses 1..i; with one time point it saves the single file plotname.pdf;
\* with an empty plotname it saves nothing.  (Stated for the default colors,
\* a non-empty axis and a target that can be written.)
C9_OnePlotPerStep ==
  (/\ call.fn = "plot_pulses" /\ call.colors = << >>
   /\ Len(call.z) >= 1 /\ Writable(call)) =>
    IF call.plotname = Path("", "")
    THEN call.saved = << >>
    ELSE /\ call.saved = ExpectedPaths(call.plotname, Len(call.times))
         /\ \A i \in 1..Len(call.saved) :
              call.saved[i] \in DOMAIN fs.files =>
                /\ i <= Len(call.lines)
                /\ fs.files[call.saved[i]] = SubSeq(call.lines, 1, i)

====
